---------------------------- MODULE Spec2Model ----------------------------
(***************************************************************************)
(* A model of src/geminiService.ts: the credential lookup (getApiKey), the *)
(* three exported operations (generateStudyNotes, analyzePharmacyImage,    *)
(* createPharmacyChatSession), the console they log to, the requests they  *)
(* send to the generation service and the replies they get back.           *)
(*                                                                         *)
(* Texts that are parsed or serialised are sequences of UTF-16 code units, *)
(* so that JSON.parse is modelled by what it does. A code unit is written  *)
(* as the one-character string of a printable ASCII character (U+0020 to   *)
(* U+007E, the grave accent U+0060 excepted), as "\t", "\n", "\f" or "\r",  *)
(* and as the atom "<U+XXXX>" (four upper-case hexadecimal digits) for     *)
(* every other code unit.                                                  *)
(***************************************************************************)
EXTENDS Integers, Sequences, FiniteSets

(***************************************************************************)
(* JavaScript values, as far as JSON needs them.                           *)
(***************************************************************************)
JsUndefined == [t |-> "undefined"]
JsNull == [t |-> "null"]
JsBool(b) == [t |-> "bool", b |-> b]
\* A number is kept as its lexeme: no claim reads a number's value.
JsNum(lexeme) == [t |-> "num", lexeme |-> lexeme]
JsStr(chars) == [t |-> "str", s |-> chars]
JsArr(items) == [t |-> "arr", items |-> items]
\* An object is the sequence of its <<key, value>> properties in the order
\* the object enumerates them, each key once: the keys that are array
\* indices first, in ascending numeric order, then the other keys in the
\* order they were added.
JsObj(props) == [t |-> "obj", props |-> props]

Keys(o) == {o.props[k][1] : k \in 1..Len(o.props)}
HasKey(o, key) == o.t = "obj" /\ key \in Keys(o)
Get(o, key) == o.props[CHOOSE k \in 1..Len(o.props) : o.props[k][1] = key][2]

Digits == {"0", "1", "2", "3", "4", "5", "6", "7", "8", "9"}
DigitValue ==
    [c \in Digits |->
        CASE c = "0" -> 0 [] c = "1" -> 1 [] c = "2" -> 2 [] c = "3" -> 3
          [] c = "4" -> 4 [] c = "5" -> 5 [] c = "6" -> 6 [] c = "7" -> 7
          [] c = "8" -> 8 [] c = "9" -> 9]

\* The largest array index, 2^32 - 2, in digits.
MaxArrayIndex == <<"4", "2", "9", "4", "9", "6", "7", "2", "9", "4">>

\* The order of two numbers written in canonical decimal digits: the shorter
\* is the smaller, and of two of one length the one with the smaller digit
\* where they first differ.
IndexLess(a, b) ==
    \/ Len(a) < Len(b)
    \/ /\ Len(a) = Len(b)
       /\ \E k \in 1..Len(a) :
             /\ DigitValue[a[k]] < DigitValue[b[k]]
             /\ \A j \in 1..(k - 1) : a[j] = b[j]

\* A key is an array index when it is the canonical decimal form of an
\* integer from 0 to 2^32 - 2.
IsArrayIndex(key) ==
    /\ Len(key) >= 1
    /\ \A k \in 1..Len(key) : key[k] \in Digits
    /\ key[1] = "0" => Len(key) = 1
    /\ ~IndexLess(MaxArrayIndex, key)

\* obj[key] = value: an existing property keeps its place; a new array index
\* goes before the first property that is not a smaller array index; any
\* other new key goes to the end.
SetProp(props, key, value) ==
    IF \E k \in 1..Len(props) : props[k][1] = key
    THEN [k \in 1..Len(props) |->
            IF props[k][1] = key THEN <<key, value>> ELSE props[k]]
    ELSE IF ~IsArrayIndex(key) THEN Append(props, <<key, value>>)
    ELSE LET smaller == {k \in 1..Len(props) :
                            /\ IsArrayIndex(props[k][1])
                            /\ IndexLess(props[k][1], key)}
             n == Cardinality(smaller)
         IN  SubSeq(props, 1, n) \o <<<<key, value>>>> \o SubSeq(props, n + 1, Len(props))

(***************************************************************************)
(* JSON.parse (line 93), a recursive-descent parser of the JSON grammar.   *)
(* A result is [ok |-> TRUE, v |-> value, i |-> next position] or          *)
(* [ok |-> FALSE, pos |-> position of the offending character], where a    *)
(* position past the end of the text means the text ended too early.       *)
(***************************************************************************)
Whitespace == {" ", "\t", "\n", "\r"}
UpperHex == <<"0", "1", "2", "3", "4", "5", "6", "7", "8", "9", "A", "B", "C", "D", "E", "F">>
LowerHex == <<"0", "1", "2", "3", "4", "5", "6", "7", "8", "9", "a", "b", "c", "d", "e", "f">>
HexDigits == {UpperHex[k] : k \in 1..16} \cup {LowerHex[k] : k \in 1..16}
HexValue(h) == (CHOOSE k \in 1..16 : UpperHex[k] = h \/ LowerHex[k] = h) - 1

\* The printable ASCII characters, U+0020 to U+007E. The grave accent has no
\* TLA+ string and is an atom.
Ascii ==
    <<" ", "!", "\"", "#", "$", "%", "&", "'", "(", ")", "*", "+",
      ",", "-", ".", "/", "0", "1", "2", "3", "4", "5", "6", "7",
      "8", "9", ":", ";", "<", "=", ">", "?", "@", "A", "B", "C",
      "D", "E", "F", "G", "H", "I", "J", "K", "L", "M", "N", "O",
      "P", "Q", "R", "S", "T", "U", "V", "W", "X", "Y", "Z", "[",
      "\\", "]", "^", "_", "<U+0060>", "a", "b", "c", "d", "e", "f", "g",
      "h", "i", "j", "k", "l", "m", "n", "o", "p", "q", "r", "s",
      "t", "u", "v", "w", "x", "y", "z", "{", "|", "}", "~">>

\* The code unit of a code from 0 to 65535, as texts hold it.
CodeUnit(code) ==
    CASE code \in 32..126 -> Ascii[code - 31]
      [] code = 9  -> "\t"
      [] code = 10 -> "\n"
      [] code = 12 -> "\f"
      [] code = 13 -> "\r"
      [] OTHER -> "<U+" \o UpperHex[(code \div 4096) + 1]
                        \o UpperHex[((code \div 256) % 16) + 1]
                        \o UpperHex[((code \div 16) % 16) + 1]
                        \o UpperHex[(code % 16) + 1] \o ">"

\* The control characters, U+0000 to U+001F: none may stand raw in a string.
ControlChars == {CodeUnit(code) : code \in 0..31}
ControlCode(c) == CHOOSE code \in 0..31 : CodeUnit(code) = c

Unescape == [c \in {"\"", "\\", "/", "b", "f", "n", "r", "t"} |->
                CASE c = "b" -> CodeUnit(8)
                  [] c = "f" -> "\f"
                  [] c = "n" -> "\n"
                  [] c = "r" -> "\r"
                  [] c = "t" -> "\t"
                  [] OTHER -> c]

Ok(v, i) == [ok |-> TRUE, v |-> v, i |-> i]
Fail(pos) == [ok |-> FALSE, pos |-> pos]

RECURSIVE SkipWs(_, _)
SkipWs(s, i) ==
    IF i <= Len(s) /\ s[i] \in Whitespace THEN SkipWs(s, i + 1) ELSE i

RECURSIVE SkipDigits(_, _)
SkipDigits(s, i) ==
    IF i <= Len(s) /\ s[i] \in Digits THEN SkipDigits(s, i + 1) ELSE i

\* The first position of s, from i on, where s departs from the word w
\* (0 when it does not).
RECURSIVE Mismatch(_, _, _, _)
Mismatch(s, i, w, k) ==
    IF k > Len(w) THEN 0
    ELSE IF i > Len(s) \/ s[i] # w[k] THEN i
    ELSE Mismatch(s, i + 1, w, k + 1)

ParseLiteral(s, i, w, v) ==
    LET m == Mismatch(s, i, w, 1)
    IN  IF m = 0 THEN Ok(v, i + Len(w)) ELSE Fail(m)

\* A \uXXXX escape stands for the code unit its four digits name.
RECURSIVE ScanString(_, _, _)
ScanString(s, j, acc) ==
    IF j > Len(s) THEN Fail(j)
    ELSE IF s[j] = "\"" THEN Ok(JsStr(acc), j + 1)
    ELSE IF s[j] \in ControlChars THEN Fail(j)
    ELSE IF s[j] # "\\" THEN ScanString(s, j + 1, Append(acc, s[j]))
    ELSE IF j + 1 > Len(s) THEN Fail(j + 1)
    ELSE IF s[j + 1] \in DOMAIN Unescape
         THEN ScanString(s, j + 2, Append(acc, Unescape[s[j + 1]]))
    ELSE IF s[j + 1] # "u" THEN Fail(j + 1)
    ELSE LET bad == {k \in (j + 2)..(j + 5) : k > Len(s) \/ s[k] \notin HexDigits}
         IN  IF bad # {} THEN Fail(CHOOSE k \in bad : \A m \in bad : k <= m)
             ELSE ScanString(s, j + 6,
                     Append(acc, CodeUnit(4096 * HexValue(s[j + 2]) + 256 * HexValue(s[j + 3])
                                            + 16 * HexValue(s[j + 4]) + HexValue(s[j + 5]))))

\* -? (0 | [1-9][0-9]*) (. [0-9]+)? ([eE] [+-]? [0-9]+)?
ParseNumber(s, i) ==
    LET a  == IF s[i] = "-" THEN i + 1 ELSE i
        b  == IF a <= Len(s) /\ s[a] = "0" THEN a + 1 ELSE SkipDigits(s, a)
        c  == IF b <= Len(s) /\ s[b] = "." THEN SkipDigits(s, b + 1) ELSE b
        e1 == IF c <= Len(s) /\ s[c] \in {"e", "E"} THEN c + 1 ELSE c
        e2 == IF e1 > c /\ e1 <= Len(s) /\ s[e1] \in {"+", "-"} THEN e1 + 1 ELSE e1
        d  == IF e1 > c THEN SkipDigits(s, e2) ELSE c
    IN  IF b = a THEN Fail(a)
        ELSE IF c = b + 1 THEN Fail(c)
        ELSE IF e1 > c /\ d = e2 THEN Fail(d)
        ELSE Ok(JsNum(SubSeq(s, i, d - 1)), d)

RECURSIVE ParseValue(_, _)
RECURSIVE ParseElements(_, _, _)
RECURSIVE ParseMembers(_, _, _)

\* The elements of an array, from the first one on; i is past "[" or ",".
ParseElements(s, i, acc) ==
    LET r == ParseValue(s, i)
    IN  IF ~r.ok THEN r
        ELSE LET j == SkipWs(s, r.i)
             IN  IF j > Len(s) THEN Fail(j)
                 ELSE IF s[j] = "," THEN ParseElements(s, j + 1, Append(acc, r.v))
                 ELSE IF s[j] = "]" THEN Ok(JsArr(Append(acc, r.v)), j + 1)
                 ELSE Fail(j)

\* The members of an object, from the first one on; i is past "{" or ",".
ParseMembers(s, i, acc) ==
    LET k == SkipWs(s, i)
    IN  IF k > Len(s) \/ s[k] # "\"" THEN Fail(k)
        ELSE LET key == ScanString(s, k + 1, <<>>)
             IN  IF ~key.ok THEN key
                 ELSE LET c == SkipWs(s, key.i)
                      IN  IF c > Len(s) \/ s[c] # ":" THEN Fail(c)
                          ELSE LET r == ParseValue(s, c + 1)
                               IN  IF ~r.ok THEN r
                                   ELSE LET j    == SkipWs(s, r.i)
                                            more == SetProp(acc, key.v.s, r.v)
                                        IN  IF j > Len(s) THEN Fail(j)
                                            ELSE IF s[j] = "," THEN ParseMembers(s, j + 1, more)
                                            ELSE IF s[j] = "}" THEN Ok(JsObj(more), j + 1)
                                            ELSE Fail(j)

ParseValue(s, i0) ==
    LET i == SkipWs(s, i0)
    IN  IF i > Len(s) THEN Fail(i)
        ELSE CASE s[i] = "{" ->
                    LET j == SkipWs(s, i + 1)
                    IN  IF j <= Len(s) /\ s[j] = "}" THEN Ok(JsObj(<<>>), j + 1)
                        ELSE ParseMembers(s, i + 1, <<>>)
               [] s[i] = "[" ->
                    LET j == SkipWs(s, i + 1)
                    IN  IF j <= Len(s) /\ s[j] = "]" THEN Ok(JsArr(<<>>), j + 1)
                        ELSE ParseElements(s, i + 1, <<>>)
               [] s[i] = "\"" -> ScanString(s, i + 1, <<>>)
               [] s[i] = "t" -> ParseLiteral(s, i, <<"t", "r", "u", "e">>, JsBool(TRUE))
               [] s[i] = "f" -> ParseLiteral(s, i, <<"f", "a", "l", "s", "e">>, JsBool(FALSE))
               [] s[i] = "n" -> ParseLiteral(s, i, <<"n", "u", "l", "l">>, JsNull)
               [] s[i] = "-" \/ s[i] \in Digits -> ParseNumber(s, i)
               [] OTHER -> Fail(i)

\* JSON.parse(text): the value, or the position the SyntaxError is about.
JSONparse(text) ==
    LET r == ParseValue(text, 1)
    IN  IF ~r.ok THEN r
        ELSE LET j == SkipWs(text, r.i)
             IN  IF j <= Len(text) THEN Fail(j) ELSE r

(***************************************************************************)
(* The response schema of generateStudyNotes (lines 50-87). Property names *)
(* are texts, as they stand in a JSON reply.                               *)
(***************************************************************************)
K_introduction ==
    <<"i", "n", "t", "r", "o", "d", "u", "c", "t", "i", "o", "n">>
K_definition ==
    <<"d", "e", "f", "i", "n", "i", "t", "i", "o", "n">>
K_classification ==
    <<"c", "l", "a", "s", "s", "i", "f", "i", "c", "a", "t", "i", "o", "n">>
K_detailedExplanation ==
    <<"d", "e", "t", "a", "i", "l", "e", "d", "E", "x", "p", "l", "a", "n", "a", "t", "i", "o", "n">>
K_examples ==
    <<"e", "x", "a", "m", "p", "l", "e", "s">>
K_diagramDescription ==
    <<"d", "i", "a", "g", "r", "a", "m", "D", "e", "s", "c", "r", "i", "p", "t", "i", "o", "n">>
K_examPoints ==
    <<"e", "x", "a", "m", "P", "o", "i", "n", "t", "s">>
K_shortAnswerQuestions ==
    <<"s", "h", "o", "r", "t", "A", "n", "s", "w", "e", "r", "Q", "u", "e", "s", "t", "i", "o", "n", "s">>
K_longAnswerQuestions ==
    <<"l", "o", "n", "g", "A", "n", "s", "w", "e", "r", "Q", "u", "e", "s", "t", "i", "o", "n", "s">>
K_pyqs ==
    <<"p", "y", "q", "s">>
K_vivaQuestions ==
    <<"v", "i", "v", "a", "Q", "u", "e", "s", "t", "i", "o", "n", "s">>
K_clinicalCorrelation ==
    <<"c", "l", "i", "n", "i", "c", "a", "l", "C", "o", "r", "r", "e", "l", "a", "t", "i", "o", "n">>
K_type ==
    <<"t", "y", "p", "e">>
K_explanation ==
    <<"e", "x", "p", "l", "a", "n", "a", "t", "i", "o", "n">>
K_point ==
    <<"p", "o", "i", "n", "t">>
K_mnemonic ==
    <<"m", "n", "e", "m", "o", "n", "i", "c">>

\* required: [...] (line 86).
RequiredKeys ==
    {K_introduction, K_detailedExplanation, K_examples, K_examPoints,
     K_shortAnswerQuestions, K_longAnswerQuestions, K_pyqs, K_vivaQuestions}

\* The properties of type STRING and of type ARRAY of STRING (lines 53-84).
StringKeys ==
    {K_introduction, K_definition, K_diagramDescription, K_clinicalCorrelation}
StringArrayKeys ==
    {K_detailedExplanation, K_examples, K_shortAnswerQuestions,
     K_longAnswerQuestions, K_pyqs, K_vivaQuestions}

IsStr(v) == v.t = "str"
IsStringArray(v) == v.t = "arr" /\ \A k \in 1..Len(v.items) : IsStr(v.items[k])

\* An item of classification: {type, explanation}, both required (55-65).
IsClassificationItem(v) ==
    /\ v.t = "obj"
    /\ {K_type, K_explanation} \subseteq Keys(v)
    /\ \A k \in Keys(v) \cap {K_type, K_explanation} : IsStr(Get(v, k))

\* An item of examPoints: {point, mnemonic}, point required (69-79).
IsExamPoint(v) ==
    /\ v.t = "obj"
    /\ K_point \in Keys(v)
    /\ \A k \in Keys(v) \cap {K_point, K_mnemonic} : IsStr(Get(v, k))

\* A value matches responseSchema: an object that has every required property
\* and whose declared properties are of the declared types.
SatisfiesSchema(v) ==
    /\ v.t = "obj"
    /\ RequiredKeys \subseteq Keys(v)
    /\ \A k \in Keys(v) \cap StringKeys : IsStr(Get(v, k))
    /\ \A k \in Keys(v) \cap StringArrayKeys : IsStringArray(Get(v, k))
    /\ \A k \in Keys(v) \cap {K_classification} :
          /\ Get(v, k).t = "arr"
          /\ \A n \in 1..Len(Get(v, k).items) : IsClassificationItem(Get(v, k).items[n])
    /\ \A k \in Keys(v) \cap {K_examPoints} :
          /\ Get(v, k).t = "arr"
          /\ \A n \in 1..Len(Get(v, k).items) : IsExamPoint(Get(v, k).items[n])

\* The required fields of StudyNotes that a returned value lacks.
MissingRequired(v) ==
    IF v.t = "obj" THEN RequiredKeys \ Keys(v) ELSE RequiredKeys

(***************************************************************************)
(* The service's side of responseMimeType "application/json" (line 49): a  *)
(* value written as JSON text, the way JSON.stringify writes it. ws is the *)
(* white space the writer puts after ":" and "," (none for the compact     *)
(* form).                                                                  *)
(***************************************************************************)
\* The surrogate code units, U+D800 to U+DFFF, by their last three digits.
SurrogateDigits == {<<8 + a, b, c>> : a \in 0..7, b \in 0..15, c \in 0..15}
Surrogate(d) == CodeUnit(53248 + 256 * d[1] + 16 * d[2] + d[3])
HighSurrogates == {Surrogate(d) : d \in {e \in SurrogateDigits : e[1] < 12}}
LowSurrogates == {Surrogate(d) : d \in {e \in SurrogateDigits : e[1] >= 12}}

\* The escape \uXXXX of a code, in lower-case digits.
UnicodeEscape(code) ==
    <<"\\", "u", LowerHex[(code \div 4096) + 1], LowerHex[((code \div 256) % 16) + 1],
      LowerHex[((code \div 16) % 16) + 1], LowerHex[(code % 16) + 1]>>

EscapeChar(c) ==
    CASE c = "\"" -> <<"\\", "\"">>
      [] c = "\\" -> <<"\\", "\\">>
      [] c = "\n" -> <<"\\", "n">>
      [] c = "\r" -> <<"\\", "r">>
      [] c = "\t" -> <<"\\", "t">>
      [] c = "\f" -> <<"\\", "f">>
      [] c = CodeUnit(8) -> <<"\\", "b">>
      [] c \in ControlChars \ {"\n", "\r", "\t", "\f", CodeUnit(8)} ->
            UnicodeEscape(ControlCode(c))
      [] c \in HighSurrogates \cup LowSurrogates ->
            LET d == CHOOSE e \in SurrogateDigits : Surrogate(e) = c
            IN  UnicodeEscape(53248 + 256 * d[1] + 16 * d[2] + d[3])
      [] OTHER -> <<c>>

\* The characters of a string from the k-th on, escaped, and the closing
\* quote. A high surrogate followed by a low one is a pair and stands raw;
\* a surrogate on its own is escaped.
RECURSIVE Quote(_, _)
Quote(chars, k) ==
    IF k > Len(chars) THEN <<"\"">>
    ELSE IF /\ k < Len(chars)
            /\ chars[k] \in HighSurrogates
            /\ chars[k + 1] \in LowSurrogates
         THEN <<chars[k], chars[k + 1]>> \o Quote(chars, k + 2)
         ELSE EscapeChar(chars[k]) \o Quote(chars, k + 1)

RECURSIVE Stringify(_, _)
RECURSIVE StringifyItems(_, _, _)
RECURSIVE StringifyProps(_, _, _)

StringifyItems(items, k, ws) ==
    IF k > Len(items) THEN <<>>
    ELSE (IF k > 1 THEN <<",">> \o ws ELSE <<>>)
            \o Stringify(items[k], ws) \o StringifyItems(items, k + 1, ws)

StringifyProps(props, k, ws) ==
    IF k > Len(props) THEN <<>>
    ELSE (IF k > 1 THEN <<",">> \o ws ELSE <<>>)
            \o <<"\"">> \o Quote(props[k][1], 1) \o <<":">> \o ws
            \o Stringify(props[k][2], ws) \o StringifyProps(props, k + 1, ws)

Stringify(v, ws) ==
    CASE v.t = "str"  -> <<"\"">> \o Quote(v.s, 1)
      [] v.t = "arr"  -> <<"[">> \o StringifyItems(v.items, 1, ws) \o <<"]">>
      [] v.t = "obj"  -> <<"{">> \o StringifyProps(v.props, 1, ws) \o <<"}">>
      [] v.t = "num"  -> v.lexeme
      [] v.t = "bool" -> IF v.b THEN <<"t", "r", "u", "e">> ELSE <<"f", "a", "l", "s", "e">>
      [] v.t = "null" -> <<"n", "u", "l", "l">>

(***************************************************************************)
(* Sample inputs: StudyNotes values that satisfy the schema, and the texts *)
(* the service may reply with.                                             *)
(***************************************************************************)
TextA == <<"a">>
\* A text whose JSON form needs escapes.
TextQ == <<"q", "\"", "\\", "\n", " ", CodeUnit(11), CodeUnit(55357)>>

ExamPoint(point) == JsObj(<<<<K_point, JsStr(point)>>>>)
ExamPointWithMnemonic(point, mnemonic) ==
    JsObj(<<<<K_point, JsStr(point)>>, <<K_mnemonic, JsStr(mnemonic)>>>>)
ClassificationItem(type, explanation) ==
    JsObj(<<<<K_type, JsStr(type)>>, <<K_explanation, JsStr(explanation)>>>>)

\* A StudyNotes value, its properties in the schema's order; optional says
\* whether the four optional fields are present.
MkNotes(intro, list, points, optional) ==
    JsObj(
        <<<<K_introduction, JsStr(intro)>>>>
        \o (IF optional
            THEN <<<<K_definition, JsStr(TextA)>>,
                   <<K_classification, JsArr(<<ClassificationItem(TextA, TextQ)>>)>>>>
            ELSE <<>>)
        \o <<<<K_detailedExplanation, JsArr(list)>>, <<K_examples, JsArr(list)>>>>
        \o (IF optional THEN <<<<K_diagramDescription, JsStr(TextQ)>>>> ELSE <<>>)
        \o <<<<K_examPoints, JsArr(points)>>,
             <<K_shortAnswerQuestions, JsArr(list)>>,
             <<K_longAnswerQuestions, JsArr(list)>>,
             <<K_pyqs, JsArr(list)>>,
             <<K_vivaQuestions, JsArr(list)>>>>
        \o (IF optional THEN <<<<K_clinicalCorrelation, JsStr(TextA)>>>> ELSE <<>>))

NotesMinimal == MkNotes(TextA, <<>>, <<>>, FALSE)
NotesFull ==
    MkNotes(TextQ, <<JsStr(TextQ), JsStr(TextA)>>,
            <<ExamPoint(TextA), ExamPointWithMnemonic(TextQ, TextA)>>, TRUE)
SampleNotes ==
    {NotesMinimal, NotesFull,
     MkNotes(TextA, <<JsStr(TextA)>>, <<ExamPointWithMnemonic(TextA, TextQ)>>, FALSE),
     MkNotes(TextQ, <<JsStr(TextA)>>, <<ExamPoint(TextQ)>>, TRUE)}

\* A value without its property key.
Without(o, key) == JsObj(SelectSeq(o.props, LAMBDA p : p[1] # key))

\* Replies that are the JSON text of a schema value, compact or spaced, each
\* with the value it is the text of.
SchemaPairs ==
    {<<Stringify(v, <<>>), v>> : v \in SampleNotes}
        \cup {<<Stringify(NotesFull, <<"\n", " ">>), NotesFull>>}
SchemaTexts == {p[1] : p \in SchemaPairs}
\* Replies that are JSON, but not of a schema value.
OtherJsonTexts ==
    {<<"{", "}">>, <<"n", "u", "l", "l">>,
     <<"{", "\"", "b", "\"", ":", "1", ",", "\"", "1", "0", "\"", ":", "2", ",",
       "\"", "\\", "u", "0", "0", "6", "2", "\"", ":", "3", ",", "\"", "9", "\"", ":", "4", "}">>,
     Stringify(Without(NotesMinimal, K_examPoints), <<>>)}
\* Replies that are not JSON: cut short, or with a character out of place.
NonJsonTexts ==
    {<<"[">>, <<"h", "i">>, <<"\"", "a", CodeUnit(11), "\"">>,
     SubSeq(Stringify(NotesMinimal, <<>>), 1, Len(Stringify(NotesMinimal, <<>>)) - 1),
     Stringify(NotesMinimal, <<>>) \o <<"}">>}
NotesTexts == SchemaTexts \cup OtherJsonTexts \cup NonJsonTexts
ImageTexts == {<<"#", " ", "I", "d">>}

(***************************************************************************)
(* Bounds of the model.                                                    *)
(***************************************************************************)
\* Invocations that may be in flight at once.
MaxCalls == 2

(***************************************************************************)
(* Errors, messages and the console.                                       *)
(***************************************************************************)
NoMessage == [absent |-> TRUE]
Msg(text) == [text |-> text]
\* JavaScript's truthiness of error.message: absent and "" are falsy.
TruthyMessage(m) == m # NoMessage /\ m # Msg("")

Error(name, message) == [name |-> name, message |-> message]

\* What the service's client may reject a call with.
ServiceErrors ==
    {Error("ApiError", m) :
        m \in {NoMessage, Msg(""), Msg("fetch failed")}}

\* The characters the engine's message shows on either side of an
\* unexpected character.
MaxContextCharacters == 10

\* The part of a text the engine's message quotes for an unexpected
\* character at pos: the whole of a text of at most twenty characters, else
\* the ten characters before it and the ten from it on.
QuotedContext(text, pos) ==
    IF Len(text) < 2 * MaxContextCharacters + 1 THEN text
    ELSE LET p     == pos - 1
             first == IF p < MaxContextCharacters THEN 0 ELSE p - MaxContextCharacters
             last  == IF p < Len(text) - MaxContextCharacters
                      THEN p + MaxContextCharacters ELSE Len(text)
         IN  SubSeq(text, first + 1, last)

\* The SyntaxError of JSON.parse. Its message is the engine's: it names the
\* position (counted from 0) and quotes the context of the unexpected
\* character or no part of the text, by the kind of the error; a text that
\* ended too early is never quoted.
SyntaxMessage(pos, quoted) == [syntax |-> "JSON", position |-> pos - 1, quoted |-> quoted]
SyntaxErrors(text, pos) ==
    {Error("SyntaxError", SyntaxMessage(pos, q)) :
        q \in {<<>>} \cup (IF pos <= Len(text) THEN {QuotedContext(text, pos)} ELSE {})}

Warn(message) == [level |-> "warn", label |-> message, error |-> Error("", NoMessage)]
LogError(label, error) == [level |-> "error", label |-> label, error |-> error]

MissingKeyWarning == "API Key is missing. Ensure process.env.API_KEY is configured."
EmptyResponseMessage == Msg("The AI returned an empty response. Please try again.")
NotesFallbackMessage == Msg("Could not generate academic notes.")
ImageFailureMessage == Msg("Failed to process image lab analysis.")
ImageFallbackText ==
    <<"A", "n", "a", "l", "y", "s", "i", "s", " ", "u", "n", "a", "v",
      "a", "i", "l", "a", "b", "l", "e", " ", "f", "o", "r", " ", "t",
      "h", "i", "s", " ", "i", "m", "a", "g", "e", ".">>

(***************************************************************************)
(* process.env.API_KEY and getApiKey (lines 19-25).                        *)
(***************************************************************************)
EnvUnset == [set |-> FALSE, value |-> ""]
EnvSet(value) == [set |-> TRUE, value |-> value]
EnvValues == {EnvUnset, EnvSet(""), EnvSet("AIza-key")}

\* !key
KeyMissing(e) == ~e.set \/ e.value = ""

\* A mutant of getApiKey: the missing key is replaced silently.
getApiKeySilent(e) ==
    [key |-> IF KeyMissing(e) THEN "" ELSE e.value, console |-> <<>>]

\* The key getApiKey returns and the console lines it writes.
getApiKey(e) ==
    [key     |-> IF KeyMissing(e) THEN "" ELSE e.value,
     console |-> IF KeyMissing(e) THEN <<Warn(MissingKeyWarning)>> ELSE <<>>]

(***************************************************************************)
(* Inputs of the operations.                                               *)
(***************************************************************************)
\* UserPreferences; university "" stands for an absent or empty one.
Prefs ==
    {[subject |-> "Pharmaceutics", semester |-> "1", topic |-> "Dosage forms",
      length |-> "Detailed", university |-> u, includeDiagrams |-> TRUE,
      includeMnemonics |-> TRUE, includeClinicalCorrelation |-> FALSE] :
        u \in {"", "SPPU"}}

\* The fields the user prompt is built from (lines 30-41).
UserPrompt(prefs) ==
    [prefs EXCEPT !.university =
        IF prefs.university = "" THEN "Any PCI-affiliated University" ELSE @]

Images == {[data |-> "aGVsbG8=", mimeType |-> "image/png"]}

\* The request a call of ai.models.generateContent puts on the wire.
NoRequest == [api |-> "none", apiKey |-> "", contents |-> [none |-> TRUE]]
GenerateContent(apiKey, contents) ==
    [api |-> "models.generateContent", apiKey |-> apiKey, contents |-> contents]

\* The service's answer to a request: the call is rejected with an error, or
\* fulfilled with a response whose text is a string or undefined.
Rejected(error) == [kind |-> "rejected", error |-> error, text |-> JsUndefined]
Fulfilled(text) == [kind |-> "fulfilled", error |-> Error("", NoMessage), text |-> text]
NoReply == [kind |-> "none", error |-> Error("", NoMessage), text |-> JsUndefined]
RepliesWith(texts) ==
    {Rejected(e) : e \in ServiceErrors}
        \cup {Fulfilled(JsUndefined), Fulfilled(JsStr(<<>>))}
        \cup {Fulfilled(JsStr(t)) : t \in texts}

\* !text
Falsy(text) == text.t = "undefined" \/ (text.t = "str" /\ text.s = <<>>)

(***************************************************************************)
(* How an invocation ends.                                                 *)
(***************************************************************************)
Pending == [kind |-> "pending", value |-> JsUndefined, error |-> Error("", NoMessage)]
Return(value) == [kind |-> "return", value |-> value, error |-> Error("", NoMessage)]
Throw(error) == [kind |-> "throw", value |-> JsUndefined, error |-> error]

\* An invocation: the operation, the console lines it has written, the
\* requests it has sent, the one in flight, the reply it got, the calls of
\* JSON.parse it has made and its outcome.
Invocation(op, console, sent, request) ==
    [op |-> op, console |-> console, sent |-> sent, request |-> request,
     reply |-> NoReply, parses |-> 0, outcome |-> Pending]
Idle == Invocation("none", <<>>, 0, NoRequest)

(***************************************************************************)
(* generateStudyNotes after the await (lines 91-97).                       *)
(***************************************************************************)
\* A mutant of IsEmptyText: only an absent text counts as empty.
IsEmptyTextUndefinedOnly(text) == text.t = "undefined"

\* !text (line 92).
IsEmptyText(text) == Falsy(text)

\* A mutant of AsStudyNotes: only the required fields are copied over.
AsStudyNotesRequiredOnly(v) ==
    IF v.t = "obj" THEN JsObj(SelectSeq(v.props, LAMBDA p : p[1] \in RequiredKeys)) ELSE v

\* "as StudyNotes" (line 93): a cast, which checks and changes nothing.
AsStudyNotes(v) == v

\* A mutant of NotesRethrowMessage: the message is passed on unguarded, and
\* new Error(undefined) has the message "".
NotesRethrowMessageUnguarded(error) ==
    IF error.message = NoMessage THEN Msg("") ELSE error.message

\* error.message || "Could not generate academic notes." (line 96).
NotesRethrowMessage(error) ==
    IF TruthyMessage(error.message) THEN error.message ELSE NotesFallbackMessage

\* The try block from line 91 on: the ways it may end for a reply, each a
\* value returned or an error thrown into the catch block, with the number
\* of calls of JSON.parse made.
NotesTry(reply) ==
    IF reply.kind = "rejected"
    THEN {[caught |-> TRUE, error |-> reply.error, value |-> JsUndefined, parses |-> 0]}
    ELSE IF IsEmptyText(reply.text)
    THEN {[caught |-> TRUE, error |-> Error("Error", EmptyResponseMessage),
           value |-> JsUndefined, parses |-> 0]}
    ELSE LET r == JSONparse(reply.text.s)
         IN  IF r.ok
             THEN {[caught |-> FALSE, error |-> Error("", NoMessage),
                    value |-> AsStudyNotes(r.v), parses |-> 1]}
             ELSE {[caught |-> TRUE, error |-> e, value |-> JsUndefined, parses |-> 1] :
                      e \in SyntaxErrors(reply.text.s, r.pos)}

\* A mutant of NotesCatch: the error is rethrown without being logged.
NotesCatchUnlogged(inv, error) ==
    [inv EXCEPT !.outcome = Throw(Error("Error", NotesRethrowMessage(error)))]

\* The catch block (lines 94-97): the error is logged, then a new Error
\* with its message is thrown.
NotesCatch(inv, error) ==
    [inv EXCEPT !.console = Append(@, LogError("Gemini API Error:", error)),
                !.outcome = Throw(Error("Error", NotesRethrowMessage(error)))]

\* A mutant of NotesSettled: the catch block logs and falls through, so the
\* operation returns undefined.
NotesSettledSwallowing(inv, reply, t) ==
    LET got == [inv EXCEPT !.reply = reply, !.request = NoRequest, !.parses = t.parses]
    IN  IF t.caught
        THEN [got EXCEPT !.console = Append(@, LogError("Gemini API Error:", t.error)),
                         !.outcome = Return(JsUndefined)]
        ELSE [got EXCEPT !.outcome = Return(t.value)]

\* The invocation once the reply has come and the try block ended as t.
NotesSettled(inv, reply, t) ==
    LET got == [inv EXCEPT !.reply = reply, !.request = NoRequest, !.parses = t.parses]
    IN  IF t.caught THEN NotesCatch(got, t.error)
        ELSE [got EXCEPT !.outcome = Return(t.value)]

(***************************************************************************)
(* analyzePharmacyImage after the await (lines 139-143).                   *)
(***************************************************************************)
\* A mutant of ImageResult: the text is returned with no fallback.
ImageResultNoFallback(text) == text

\* response.text || "Analysis unavailable for this image." (line 139).
ImageResult(text) == IF Falsy(text) THEN JsStr(ImageFallbackText) ELSE text

\* A mutant of ImageRethrowMessage: the underlying message is forwarded, as
\* generateStudyNotes does.
ImageRethrowMessageForwarded(error) ==
    IF TruthyMessage(error.message) THEN error.message ELSE ImageFailureMessage

\* The message of the Error thrown at line 142.
ImageRethrowMessage(error) == ImageFailureMessage

ImageCatch(inv, error) ==
    [inv EXCEPT !.console = Append(@, LogError("Image Analysis Error:", error)),
                !.outcome = Throw(Error("Error", ImageRethrowMessage(error)))]

ImageSettled(inv, reply) ==
    LET got == [inv EXCEPT !.reply = reply, !.request = NoRequest]
    IN  IF reply.kind = "rejected" THEN ImageCatch(got, reply.error)
        ELSE [got EXCEPT !.outcome = Return(ImageResult(reply.text))]

(***************************************************************************)
(* The state: the process configuration, the invocations in flight, the    *)
(* invocation that settled last, and the chat session created last.        *)
(***************************************************************************)
VARIABLES env, calls, settled, session

vars == <<env, calls, settled, session>>

Slots == 1..MaxCalls
NotesReplies == RepliesWith(NotesTexts)
ImageReplies == RepliesWith(ImageTexts)
\* The try block's endings, reply by reply.
NotesEndings == [reply \in NotesReplies |-> NotesTry(reply)]

\* A session: whether one was created, whether its holder has used it, and
\* the requests sent to the service on its behalf.
NoSession == [live |-> FALSE, used |-> FALSE, sent |-> 0]
\* The object ai.chats.create returns (lines 149-154), of a client made
\* with apiKey.
ChatHandle(apiKey) == [t |-> "chat", apiKey |-> apiKey]

Init ==
    /\ env \in EnvValues
    /\ calls = [i \in Slots |-> Idle]
    /\ settled = Idle
    /\ session = NoSession

\* The process configuration changes (it is read at line 20).
SetApiKey(e) ==
    /\ env # e
    /\ env' = e
    /\ UNCHANGED <<calls, settled, session>>

\* generateStudyNotes up to its await (lines 27-89): the key is looked up,
\* the prompt built and one request sent.
GenerateStudyNotes(i, prefs) ==
    /\ calls[i].op = "none"
    /\ LET k == getApiKey(env)
       IN  calls' = [calls EXCEPT ![i] =
               Invocation("notes", k.console, 1, GenerateContent(k.key, UserPrompt(prefs)))]
    /\ UNCHANGED <<env, settled, session>>

\* A mutant of GenerateStudyNotesSettle: a failed first attempt is retried,
\* the request sent once more.
GenerateStudyNotesSettleRetrying(i) ==
    /\ calls[i].op = "notes"
    /\ \E reply \in NotesReplies : \E t \in NotesEndings[reply] :
          IF t.caught /\ calls[i].sent < 2
          THEN /\ calls' = [calls EXCEPT ![i].sent = @ + 1]
               /\ UNCHANGED settled
          ELSE /\ settled' = NotesSettled(calls[i], reply, t)
               /\ calls' = [calls EXCEPT ![i] = Idle]
    /\ UNCHANGED <<env, session>>

\* The reply comes and generateStudyNotes runs to its end (lines 91-97).
GenerateStudyNotesSettle(i) ==
    /\ calls[i].op = "notes"
    /\ \E reply \in NotesReplies : \E t \in NotesEndings[reply] :
          settled' = NotesSettled(calls[i], reply, t)
    /\ calls' = [calls EXCEPT ![i] = Idle]
    /\ UNCHANGED <<env, session>>

\* analyzePharmacyImage up to its await (lines 100-137).
AnalyzePharmacyImage(i, image) ==
    /\ calls[i].op = "none"
    /\ LET k == getApiKey(env)
       IN  calls' = [calls EXCEPT ![i] =
               Invocation("image", k.console, 1, GenerateContent(k.key, image))]
    /\ UNCHANGED <<env, settled, session>>

\* The reply comes and analyzePharmacyImage runs to its end (lines 139-143).
AnalyzePharmacyImageSettle(i) ==
    /\ calls[i].op = "image"
    /\ \E reply \in ImageReplies : settled' = ImageSettled(calls[i], reply)
    /\ calls' = [calls EXCEPT ![i] = Idle]
    /\ UNCHANGED <<env, session>>

\* A mutant of CreatePharmacyChatSession: the session is opened by a request
\* to the service.
CreatePharmacyChatSessionEager ==
    /\ LET k == getApiKey(env)
       IN  settled' = [Invocation("chat", k.console, 1, NoRequest)
                          EXCEPT !.outcome = Return(ChatHandle(k.key))]
    /\ session' = [live |-> TRUE, used |-> FALSE, sent |-> 1]
    /\ UNCHANGED <<env, calls>>

\* createPharmacyChatSession (lines 146-155): the key is looked up and the
\* session object made and returned, in one synchronous step.
CreatePharmacyChatSession ==
    /\ LET k == getApiKey(env)
       IN  settled' = [Invocation("chat", k.console, 0, NoRequest)
                          EXCEPT !.outcome = Return(ChatHandle(k.key))]
    /\ session' = [live |-> TRUE, used |-> FALSE, sent |-> 0]
    /\ UNCHANGED <<env, calls>>

\* The caller uses the session it was given for the first time: a message
\* goes to the service.
SendMessage ==
    /\ session.live
    /\ ~session.used
    /\ session' = [session EXCEPT !.used = TRUE, !.sent = @ + 1]
    /\ UNCHANGED <<env, calls, settled>>

Next ==
    \/ \E e \in EnvValues : SetApiKey(e)
    \/ \E i \in Slots : \E prefs \in Prefs : GenerateStudyNotes(i, prefs)
    \/ \E i \in Slots : GenerateStudyNotesSettle(i)
    \/ \E i \in Slots : \E image \in Images : AnalyzePharmacyImage(i, image)
    \/ \E i \in Slots : AnalyzePharmacyImageSettle(i)
    \/ CreatePharmacyChatSession
    \/ SendMessage

Spec == Init /\ [][Next]_vars
(***************************************************************************)
(* The properties.                                                         *)
(***************************************************************************)
\* JSON.parse of each reply text, text by text.
Parsed == [t \in NotesTexts |-> JSONparse(t)]

Warnings(console) == Len(SelectSeq(console, LAMBDA l : l.level = "warn"))
Logged(inv, label, error) ==
    Len(inv.console) > 0 /\ inv.console[Len(inv.console)] = LogError(label, error)

HasText(inv) == inv.reply.kind = "fulfilled" /\ ~Falsy(inv.reply.text)
Unparseable(inv) == HasText(inv) /\ ~Parsed[inv.reply.text.s].ok
ThrewMessage(inv, message) == inv.outcome = Throw(Error("Error", message))

\* The three failures of generateStudyNotes.
FailsWithEmptyResponse(inv) ==
    /\ inv.reply.kind = "fulfilled" /\ Falsy(inv.reply.text)
    /\ ThrewMessage(inv, EmptyResponseMessage)
FailsWithParseError(inv) ==
    /\ Unparseable(inv)
    /\ \E e \in SyntaxErrors(inv.reply.text.s, Parsed[inv.reply.text.s].pos) :
          ThrewMessage(inv, e.message)
FailsWithServiceError(inv) ==
    /\ inv.reply.kind = "rejected"
    /\ \/ ThrewMessage(inv, inv.reply.error.message)
       \/ ThrewMessage(inv, NotesFallbackMessage)
FailsAsDocumented(inv) ==
    FailsWithEmptyResponse(inv) \/ FailsWithParseError(inv) \/ FailsWithServiceError(inv)

\* C1, as stated: generateStudyNotes either returns a value in which all
\* eight required fields are present, or fails with EmptyResponse,
\* ParseError or ServiceError.
C1_AlwaysAllRequired ==
    settled.op = "notes" =>
        \/ settled.outcome.kind = "return" /\ MissingRequired(settled.outcome.value) = {}
        \/ FailsAsDocumented(settled)

\* C1, amended: generateStudyNotes either fails with EmptyResponse,
\* ParseError or ServiceError, or returns exactly the value its reply text
\* parses to; that value has all eight required fields whenever it matches
\* the declared schema, and is returned as it is when it does not.
C1_ReturnsParsedOrFails ==
    settled.op = "notes" =>
        \/ FailsAsDocumented(settled)
        \/ /\ HasText(settled)
           /\ Parsed[settled.reply.text.s].ok
           /\ settled.outcome = Return(Parsed[settled.reply.text.s].v)
           /\ SatisfiesSchema(Parsed[settled.reply.text.s].v)
                 => MissingRequired(settled.outcome.value) = {}

\* A reply without its optional fields was returned, all required fields in it.
C1_Witness ==
    /\ settled.op = "notes"
    /\ settled.outcome = Return(NotesMinimal)
    /\ MissingRequired(settled.outcome.value) = {}

\* C2: a reply whose text is empty or absent makes generateStudyNotes fail
\* with EmptyResponse, and JSON.parse is not called.
C2_EmptyReplyFailsUnparsed ==
    (settled.op = "notes" /\ settled.reply.kind = "fulfilled" /\ Falsy(settled.reply.text))
        => ThrewMessage(settled, EmptyResponseMessage) /\ settled.parses = 0

C2_Witness ==
    /\ settled.op = "notes"
    /\ settled.reply = Fulfilled(JsStr(<<>>))
    /\ settled.outcome.kind = "throw"

\* The reply text stands in a line of the invocation's console output.
TextInLog(inv) ==
    \E k \in 1..Len(inv.console) :
        LET m == inv.console[k].error.message
        IN  "quoted" \in DOMAIN m /\ m.quoted = inv.reply.text.s

\* C3, as stated: a reply that is text but not JSON makes generateStudyNotes
\* fail with ParseError, and the reply text is in the invocation's log.
C3_ParseErrorLogsText ==
    (settled.op = "notes" /\ Unparseable(settled))
        => FailsWithParseError(settled) /\ TextInLog(settled)

\* C3, amended: a reply that is text but not JSON makes generateStudyNotes
\* fail with an Error that carries the parser's SyntaxError message, after
\* one call of JSON.parse, and what is logged is that SyntaxError: the reply
\* text is in the log only as far as the parser's message quotes it.
C3_ParseErrorLogsSyntaxError ==
    (settled.op = "notes" /\ Unparseable(settled))
        => /\ settled.parses = 1
           /\ \E e \in SyntaxErrors(settled.reply.text.s, Parsed[settled.reply.text.s].pos) :
                 /\ ThrewMessage(settled, e.message)
                 /\ Logged(settled, "Gemini API Error:", e)

\* A reply cut short was rejected by the parser, and the text is not logged.
C3_Witness ==
    /\ settled.op = "notes"
    /\ settled.reply = Fulfilled(JsStr(<<"[">>))
    /\ FailsWithParseError(settled)
    /\ ~TextInLog(settled)

\* C4: a failed service call makes analyzePharmacyImage fail with the one
\* message "Failed to process image lab analysis.", whatever the error: two
\* invocations settled one after the other, both on a failed call, fail
\* alike.
C4_ImageFailureIsGeneric ==
    /\ [](settled.op = "image" /\ settled.reply.kind = "rejected"
            => ThrewMessage(settled, ImageFailureMessage))
    /\ [][(/\ settled.op = "image" /\ settled.reply.kind = "rejected"
           /\ settled'.op = "image" /\ settled'.reply.kind = "rejected")
            => settled'.outcome = settled.outcome]_vars

C4_Witness ==
    /\ settled.op = "image"
    /\ settled.reply = Rejected(Error("ApiError", Msg("fetch failed")))
    /\ ThrewMessage(settled, ImageFailureMessage)

\* C5: a fulfilled call makes analyzePharmacyImage return the reply text
\* unchanged, or "Analysis unavailable for this image." when the text is
\* empty or absent; it does not fail.
C5_ImageTextOrFallback ==
    (settled.op = "image" /\ settled.reply.kind = "fulfilled")
        => settled.outcome =
              Return(IF settled.reply.text \in {JsUndefined, JsStr(<<>>)}
                     THEN JsStr(ImageFallbackText) ELSE settled.reply.text)

C5_Witness ==
    /\ settled.op = "image"
    /\ settled.reply = Fulfilled(JsUndefined)
    /\ settled.outcome.kind = "return"

\* C6: createPharmacyChatSession returns a session in the step it is called
\* in, never fails, and sends nothing: no request goes out for a session
\* before its holder uses it.
C6_SessionCreationSendsNothing ==
    /\ settled.op = "chat"
          => /\ settled.outcome.kind = "return"
             /\ settled.outcome.value.t = "chat"
             /\ settled.sent = 0
    /\ (session.live /\ ~session.used) => session.sent = 0

C6_Witness ==
    settled.op = "chat" /\ session.live /\ ~session.used

\* The step is the start of an invocation in slot i.
Invoked(i) == calls[i].op = "none" /\ calls'[i].op # "none"
\* The step is a call of createPharmacyChatSession.
Created ==
    /\ settled'.op = "chat"
    /\ session'.live /\ ~session'.used
    /\ settled' # settled \/ session' # session
\* What one lookup of the credential brings about, the configuration being as
\* it is at the call: the empty string and one warning when the key is
\* missing (unset, or empty), the key and no warning otherwise.
OneLookup(console, key) ==
    IF ~env.set \/ env.value = ""
    THEN key = "" /\ Warnings(console) = 1
    ELSE key = env.value /\ Warnings(console) = 0

\* C7: every invocation of the three operations looks the credential up
\* once, in the configuration of that moment: with the key missing it goes
\* on with the empty string and writes one warning, with the key set it
\* writes none; it writes no further warning later.
C7_OneLookupPerInvocation ==
    [][/\ \A i \in Slots :
            /\ Invoked(i) => OneLookup(calls'[i].console, calls'[i].request.apiKey)
            /\ (calls[i].op # "none" /\ calls'[i].op = "none")
                  => Warnings(settled'.console) = Warnings(calls[i].console)
       /\ Created => OneLookup(settled'.console, settled'.outcome.value.apiKey)]_vars

\* Two invocations in flight, one made with the key missing and one with
\* the key set.
C7_Witness ==
    \E i, j \in Slots :
        /\ calls[i].op # "none" /\ Warnings(calls[i].console) = 1
        /\ calls[i].request.apiKey = ""
        /\ calls[j].op # "none" /\ Warnings(calls[j].console) = 0

\* C8: a reply that is the JSON text of a StudyNotes value matching the
\* schema makes generateStudyNotes return that value, field for field.
C8_RoundTrip ==
    settled.op = "notes" =>
        \A p \in SchemaPairs :
            settled.reply = Fulfilled(JsStr(p[1])) => settled.outcome = Return(p[2])

\* The value with every optional field and a mnemonic came back whole from
\* its spaced JSON text.
C8_Witness ==
    /\ settled.op = "notes"
    /\ settled.reply = Fulfilled(JsStr(Stringify(NotesFull, <<"\n", " ">>)))
    /\ settled.outcome = Return(NotesFull)
    /\ SatisfiesSchema(NotesFull)

\* C9: a failed service call makes generateStudyNotes fail with the
\* underlying message when there is one, and with "Could not generate
\* academic notes." when it is absent or empty; the underlying error is
\* logged.
C9_NotesServiceError ==
    (settled.op = "notes" /\ settled.reply.kind = "rejected")
        => /\ ThrewMessage(settled,
                 IF settled.reply.error.message \in {NoMessage, Msg("")}
                 THEN NotesFallbackMessage ELSE settled.reply.error.message)
           /\ Logged(settled, "Gemini API Error:", settled.reply.error)

C9_Witness ==
    /\ settled.op = "notes"
    /\ settled.reply = Rejected(Error("ApiError", Msg("")))
    /\ ThrewMessage(settled, NotesFallbackMessage)

\* C10: an invocation of generateStudyNotes or analyzePharmacyImage sends
\* one request, and has sent one and no more when it has ended, in failure
\* or not.
C10_OneRequestNoRetry ==
    /\ \A i \in Slots :
          calls[i].op \in {"notes", "image"}
              => calls[i].sent = 1 /\ calls[i].request # NoRequest
    /\ settled.op \in {"notes", "image"}
          => /\ settled.sent = 1
             /\ settled.request = NoRequest
             /\ settled.outcome.kind \in {"return", "throw"}

\* An invocation whose reply would not parse has ended in failure, one
\* request sent, and nothing is in flight.
C10_Witness ==
    /\ settled.op = "notes"
    /\ Unparseable(settled)
    /\ settled.outcome.kind = "throw"
    /\ settled.sent = 1
    /\ \A i \in Slots : calls[i] = Idle
=============================================================================
